---- MODULE Spec2Model ----
(***************************************************************************)
(* Live bus tracking backend (src/server.js): Express + MongoDB (mongoose) *)
(* + Socket.IO.  The model covers the location:update handler (validate,   *)
(* upsert, throttle, broadcast), the Bus collection as MongoDB applies the *)
(* upserts, the connected sockets and the wall clock read by Date.now().   *)
(*                                                                         *)
(* Node runs each callback to completion, so a handler is two atomic       *)
(* steps: lines 115-123 up to the await, and lines 126-136 (or the catch)  *)
(* after it.  Between the two, MongoDB applies or rejects the upsert, in   *)
(* any order relative to the upserts of the other handlers in flight.      *)
(***************************************************************************)
EXTENDS Integers, Sequences, FiniteSets, TLC

VARIABLES
    clock,              \* Date.now(), in ms
    docs,               \* the Bus collection, in natural (insertion) order
    lastBroadcastTime,  \* own properties of the object of server.js:105
    connected,          \* sockets of the "/" namespace
    nEvents,            \* location:update events received so far
    updates,            \* the callbacks that passed validation, in arrival order
    bc,                 \* the location:broadcast emissions, in order
    uri,                \* process.env.MONGO_URI: << >> when unset, else <<string>>
    proc,               \* the process: "boot", "exited", "binding", "listening", "crashed"
    mongo,              \* mongoose.connect: "idle", "connecting", "connected", "failed"
    query,              \* the GET /api/buses request being served
    res                 \* the last response of GET /api/buses

vars == <<clock, docs, lastBroadcastTime, connected, nEvents, updates, bc,
          uri, proc, mongo, query, res>>

\* startup and connection state
boot == <<uri, proc, mongo>>

\* the read path
http == <<query, res>>

----------------------------------------------------------------------------
(* Bounds of the model *)

MaxEvents == 2
MaxInFlight == 2
MaxTime == 4500

(* Program constants *)

ThrottleMs == 3000
ACTIVE_WINDOW == 30 * 1000

Clients == {"s1", "s2"}
BusIds == {"B1", "B2", "__proto__"}
Steps == {1500}
Instants == {5000, 35000, 40000}

(* JavaScript null/undefined in a payload field *)
Null == -1

(* Payloads of location:update.  obj = FALSE is a payload that is itself   *)
(* null or undefined; a missing busId is the empty string (both falsy).    *)
Payload(o, b, la, ln) == [obj |-> o, busId |-> b, lat |-> la, lng |-> ln]

\* the n-th event carries the n-th GPS fix, so every update is recognisable
ValidPayloads(n, buses) == {Payload(TRUE, b, 10 + n, 20 + n) : b \in buses}

BadPayloads ==
    { Payload(FALSE, "", Null, Null),
      Payload(TRUE, "", 10, 20),
      Payload(TRUE, "B2", Null, 20),
      Payload(TRUE, "B1", 10, Null) }

----------------------------------------------------------------------------
(* server.js:115-116 *)

\* const { busId, lat, lng } = data throws a TypeError for null/undefined
Destructures(data) == data.obj

\* a validation that forgets the lng test
IsValidNoLng(data) == data.busId # "" /\ data.lat # Null

\* the negation of: !busId || lat == null || lng == null
IsValid(data) == data.busId # "" /\ data.lat # Null /\ data.lng # Null

----------------------------------------------------------------------------
(* The throttle table: a plain object literal, so a lookup falls back to   *)
(* Object.prototype and "__proto__" is an accessor, not a data property.   *)

\* lastBroadcastTime[busId], as a tagged JavaScript value
Lookup(tbl, busId) ==
    IF busId = "__proto__" THEN [t |-> "object", n |-> 0]
    ELSE IF busId \in DOMAIN tbl THEN [t |-> "number", n |-> tbl[busId]]
    ELSE [t |-> "undefined", n |-> 0]

\* ToBoolean(v): undefined, 0 and NaN are falsy; objects are truthy
Truthy(v) == \/ v.t = "object"
             \/ v.t = "number" /\ v.n # 0

\* now - v < 3000; with v an object the difference is NaN and < is false
WithinWindow(now, v) == v.t = "number" /\ now - v.n < ThrottleMs

\* a throttle that keeps one timestamp for the whole fleet
ThrottledGlobal(tbl, busId, now) ==
    \E k \in DOMAIN tbl : tbl[k] # 0 /\ now - tbl[k] < ThrottleMs

\* server.js:127-130: the condition of the early return
Throttled(tbl, busId, now) ==
    Truthy(Lookup(tbl, busId)) /\ WithinWindow(now, Lookup(tbl, busId))

\* server.js:134: lastBroadcastTime[busId] = now; assigning a number to
\* __proto__ is ignored by the accessor
Record(tbl, busId, now) ==
    IF busId = "__proto__" THEN tbl
    ELSE [k \in DOMAIN tbl \cup {busId} |-> IF k = busId THEN now ELSE tbl[k]]

----------------------------------------------------------------------------
(* The Bus collection.  The schema declares no unique index on busId.      *)

Doc(data, at) == [busId |-> data.busId, lat |-> data.lat, lng |-> data.lng, updatedAt |-> at]

\* a filter that leaves out the busId
MatchesAny(ds, busId) == DOMAIN ds

\* the documents the filter { busId } of findOneAndUpdate selects
Matches(ds, busId) == {i \in DOMAIN ds : ds[i].busId = busId}

FirstMatch(ds, busId) == CHOOSE i \in Matches(ds, busId) : \A j \in Matches(ds, busId) : i <= j

\* a filter with $gt instead of $gte
FindStrict(ds, now) == {i \in DOMAIN ds : ds[i].updatedAt > now - ACTIVE_WINDOW}

\* Bus.find({updatedAt: {$gte: new Date(now - ACTIVE_WINDOW)}})
Find(ds, now) == {i \in DOMAIN ds : ds[i].updatedAt >= now - ACTIVE_WINDOW}

----------------------------------------------------------------------------
(* Handlers.  An entry of updates is one run of the location:update        *)
(* callback that passed validation: ev is the number of the event, db the  *)
(* state of its findOneAndUpdate at MongoDB, stage where the callback is.  *)

Handler(n, c, data, now) ==
    [ev |-> n, sender |-> c, data |-> data, updatedAt |-> now,
     db |-> "sent", stage |-> "awaiting"]

InFlight == {u \in DOMAIN updates : updates[u].stage = "awaiting"}

SetDb(u, s) == [updates EXCEPT ![u].db = s]

SetStage(u, s) == [updates EXCEPT ![u].stage = s]

\* an upsert that is not awaited: its rejection never reaches the callback
PassesAwaitAlways(db) == TRUE

\* await: the code after it runs only when the promise is fulfilled; a
\* rejection is thrown into the catch block
PassesAwait(db) == db = "ok"

\* socket.broadcast.emit: every socket but the sender
RecipientsOthers(conn, sender) == conn \ {sender}

\* socket.emit plus socket.broadcast.emit: the sender's socket is addressed
\* whether or not it is still connected
RecipientsWithSender(conn, sender) == conn \cup {sender}

\* io.emit reaches every socket of the namespace, the sender included
Recipients(conn, sender) == conn

\* the argument of io.emit("location:broadcast", data)
Message(data) == [busId |-> data.busId, lat |-> data.lat, lng |-> data.lng]

\* one emission: from names the handler, rivals the other handlers for the
\* same busId awaiting their upsert at that moment
Emission(u, now) ==
    [msg |-> Message(updates[u].data), at |-> now,
     to |-> Recipients(connected, updates[u].sender),
     from |-> u,
     rivals |-> {v \in InFlight \ {u} : updates[v].data.busId = updates[u].data.busId}]

\* a trailing emission for the update that was throttled
DeferredTrailing(u, now) == <<Emission(u, now)>>

\* server.js:131: the throttled path is a bare return, it emits nothing
\* now and schedules nothing for later
Deferred(u, now) == << >>

\* GET /api/buses: now is the Date.now() of line 90, kept while the find
\* is awaited
NoQuery == [pc |-> "idle", now |-> 0]

NoResponse == [status |-> 0, body |-> << >>, error |-> ""]

\* the server is up, one client has connected, no update was received yet
Init ==
    /\ clock = 0
    /\ docs = << >>
    /\ lastBroadcastTime = << >>
    /\ connected = {"s1"}
    /\ nEvents = 0
    /\ updates = << >>
    /\ bc = << >>
    /\ uri = <<"mongodb://db/bus">>
    /\ proc = "listening"
    /\ mongo = "connected"
    /\ query = NoQuery
    /\ res = NoResponse

\* the server is up and no client has connected yet
InitHub ==
    /\ clock = 0
    /\ docs = << >>
    /\ lastBroadcastTime = << >>
    /\ connected = {}
    /\ nEvents = 0
    /\ updates = << >>
    /\ bc = << >>
    /\ uri = <<"mongodb://db/bus">>
    /\ proc = "listening"
    /\ mongo = "connected"
    /\ query = NoQuery
    /\ res = NoResponse

\* io.on("connection")
Connect(c) ==
    /\ proc = "listening"
    /\ c \notin connected
    /\ connected' = connected \cup {c}
    /\ UNCHANGED <<clock, docs, lastBroadcastTime, nEvents, updates, bc>>
    /\ UNCHANGED <<boot, http>>

\* socket.on("disconnect")
Disconnect(c) ==
    /\ c \in connected
    /\ connected' = connected \ {c}
    /\ UNCHANGED <<clock, docs, lastBroadcastTime, nEvents, updates, bc>>
    /\ UNCHANGED <<boot, http>>

\* time passes
Tick(d) ==
    /\ clock + d <= MaxTime
    /\ clock' = clock + d
    /\ UNCHANGED <<docs, lastBroadcastTime, connected, nEvents, updates, bc>>
    /\ UNCHANGED <<boot, http>>

\* server.js:113-123: the callback up to the await
LocationUpdate(c, data) ==
    /\ c \in connected
    /\ nEvents < MaxEvents
    /\ Cardinality(InFlight) < MaxInFlight
    /\ nEvents' = nEvents + 1
    /\ IF Destructures(data) /\ IsValid(data)
       THEN updates' = Append(updates, Handler(nEvents + 1, c, data, clock))
       ELSE UNCHANGED updates
    /\ UNCHANGED <<clock, docs, lastBroadcastTime, connected, bc>>
    /\ UNCHANGED <<boot, http>>

\* MongoDB finds a document with this busId and overwrites it
UpsertUpdate(u) ==
    /\ mongo = "connected"
    /\ updates[u].db = "sent"
    /\ Matches(docs, updates[u].data.busId) # {}
    /\ docs' = [docs EXCEPT ![FirstMatch(docs, updates[u].data.busId)] =
                    Doc(updates[u].data, updates[u].updatedAt)]
    /\ updates' = SetDb(u, "ok")
    /\ UNCHANGED <<clock, lastBroadcastTime, connected, nEvents, bc>>
    /\ UNCHANGED <<boot, http>>

\* MongoDB finds no document with this busId and goes on to insert one
UpsertMiss(u) ==
    /\ mongo = "connected"
    /\ updates[u].db = "sent"
    /\ Matches(docs, updates[u].data.busId) = {}
    /\ updates' = SetDb(u, "inserting")
    /\ UNCHANGED <<clock, docs, lastBroadcastTime, connected, nEvents, bc>>
    /\ UNCHANGED <<boot, http>>

\* the insert of an upsert that found nothing
UpsertInsert(u) ==
    /\ mongo = "connected"
    /\ updates[u].db = "inserting"
    /\ docs' = Append(docs, Doc(updates[u].data, updates[u].updatedAt))
    /\ updates' = SetDb(u, "ok")
    /\ UNCHANGED <<clock, lastBroadcastTime, connected, nEvents, bc>>
    /\ UNCHANGED <<boot, http>>

\* the storage operation fails without writing
UpsertFail(u) ==
    /\ updates[u].db \in {"sent", "inserting"}
    /\ updates' = SetDb(u, "error")
    /\ UNCHANGED <<clock, docs, lastBroadcastTime, connected, nEvents, bc>>
    /\ UNCHANGED <<boot, http>>

\* server.js:126-136: the callback after the await
Resume(u) ==
    /\ updates[u].stage = "awaiting"
    /\ updates[u].db \in {"ok", "error"}
    /\ PassesAwait(updates[u].db)
    /\ IF Throttled(lastBroadcastTime, updates[u].data.busId, clock)
       THEN /\ updates' = SetStage(u, "throttled")
            /\ bc' = bc \o Deferred(u, clock)
            /\ UNCHANGED lastBroadcastTime
       ELSE /\ lastBroadcastTime' = Record(lastBroadcastTime, updates[u].data.busId, clock)
            /\ bc' = Append(bc, Emission(u, clock))
            /\ updates' = SetStage(u, "broadcast")
    /\ UNCHANGED <<clock, docs, connected, nEvents>>
    /\ UNCHANGED <<boot, http>>

\* server.js:137-139: the catch block
Catch(u) ==
    /\ updates[u].stage = "awaiting"
    /\ updates[u].db \in {"ok", "error"}
    /\ ~PassesAwait(updates[u].db)
    /\ updates' = SetStage(u, "failed")
    /\ UNCHANGED <<clock, docs, lastBroadcastTime, connected, nEvents, bc>>
    /\ UNCHANGED <<boot, http>>

\* the update path, with the one client of Init sending
Next ==
    \/ \E d \in Steps : Tick(d)
    \/ \E c \in Clients, data \in ValidPayloads(nEvents + 1, BusIds) \cup BadPayloads :
            LocationUpdate(c, data)
    \/ \E u \in DOMAIN updates : UpsertUpdate(u)
    \/ \E u \in DOMAIN updates : UpsertMiss(u)
    \/ \E u \in DOMAIN updates : UpsertInsert(u)
    \/ \E u \in DOMAIN updates : UpsertFail(u)
    \/ \E u \in DOMAIN updates : Resume(u)
    \/ \E u \in DOMAIN updates : Catch(u)

Spec == Init /\ [][Next]_vars

\* clients come and go while updates for one bus are handled and stored
NextHub ==
    \/ \E c \in Clients : Connect(c)
    \/ \E c \in Clients : Disconnect(c)
    \/ \E d \in {ThrottleMs} : Tick(d)
    \/ \E c \in Clients, data \in ValidPayloads(nEvents + 1, {"B1"}) :
            LocationUpdate(c, data)
    \/ \E u \in DOMAIN updates : UpsertUpdate(u)
    \/ \E u \in DOMAIN updates : UpsertMiss(u)
    \/ \E u \in DOMAIN updates : UpsertInsert(u)
    \/ \E u \in DOMAIN updates : Resume(u)

SpecHub == InitHub /\ [][NextHub]_vars

----------------------------------------------------------------------------
(* GET /api/buses, server.js:87-100 *)

\* the documents of ds at the indices idx, in natural order
Selected(ds, idx) ==
    LET F[i \in 0..Len(ds)] ==
            IF i = 0 THEN << >>
            ELSE IF i \in idx THEN Append(F[i - 1], ds[i]) ELSE F[i - 1]
    IN F[Len(ds)]

\* res.json(buses)
OkResponse(buses) == [status |-> 200, body |-> buses, error |-> ""]

\* a handler that forgets .status(500)
ErrorResponseOk == [status |-> 200, body |-> << >>, error |-> "Failed to fetch buses"]

\* res.status(500).json({ error: "Failed to fetch buses" })
ErrorResponse == [status |-> 500, body |-> << >>, error |-> "Failed to fetch buses"]

\* time passes until the instant t
Wait(t) ==
    /\ clock < t
    /\ clock' = t
    /\ UNCHANGED <<docs, lastBroadcastTime, connected, nEvents, updates, bc, boot, http>>

\* server.js:87-94: the route up to the await
GetBuses ==
    /\ proc = "listening"
    /\ query.pc = "idle"
    /\ query' = [pc |-> "pending", now |-> clock]
    /\ UNCHANGED <<clock, docs, lastBroadcastTime, connected, nEvents, updates, bc, boot, res>>

\* MongoDB runs the find; server.js:96
FindOk ==
    /\ mongo = "connected"
    /\ query.pc = "pending"
    /\ res' = OkResponse(Selected(docs, Find(docs, query.now)))
    /\ query' = [query EXCEPT !.pc = "idle"]
    /\ UNCHANGED <<clock, docs, lastBroadcastTime, connected, nEvents, updates, bc, boot>>

\* the find is rejected; server.js:97-99
FindFail ==
    /\ query.pc = "pending"
    /\ res' = ErrorResponse
    /\ query' = [query EXCEPT !.pc = "idle"]
    /\ UNCHANGED <<clock, docs, lastBroadcastTime, connected, nEvents, updates, bc, boot>>

\* two buses report and are stored while the active buses are queried
NextQuery ==
    \/ \E t \in Instants : Wait(t)
    \/ \E c \in Clients, data \in ValidPayloads(nEvents + 1, {"B1", "B2"}) :
            LocationUpdate(c, data)
    \/ \E u \in DOMAIN updates : UpsertUpdate(u)
    \/ \E u \in DOMAIN updates : UpsertMiss(u)
    \/ \E u \in DOMAIN updates : UpsertInsert(u)
    \/ GetBuses
    \/ FindOk
    \/ FindFail

SpecQuery == Init /\ [][NextQuery]_vars

(***************************************************************************)
(* Startup: server.js:37-47 and 150-154                                    *)
(***************************************************************************)
\* process.env.MONGO_URI: unset, empty, or a connection string
MongoUris == {<< >>, <<"">>, <<"mongodb://db/bus">>}

\* a start-up check that lets an unset variable through
FatalNever(u) == FALSE

\* !process.env.MONGO_URI: undefined and the empty string are falsy
Fatal(u) == u = << >> \/ u[1] = ""

InitBoot ==
    /\ clock = 0
    /\ docs = << >>
    /\ lastBroadcastTime = << >>
    /\ connected = {}
    /\ nEvents = 0
    /\ updates = << >>
    /\ bc = << >>
    /\ uri \in MongoUris
    /\ proc = "boot"
    /\ mongo = "idle"
    /\ query = NoQuery
    /\ res = NoResponse

\* the module is loaded: the check of MONGO_URI, then mongoose.connect
\* and server.listen are called
Boot ==
    /\ proc = "boot"
    /\ IF Fatal(uri)
       THEN proc' = "exited" /\ UNCHANGED mongo
       ELSE proc' = "binding" /\ mongo' = "connecting"
    /\ UNCHANGED <<clock, docs, lastBroadcastTime, connected, nEvents, updates, bc, uri, http>>

\* the socket is bound: the callback of server.listen runs
Listening ==
    /\ proc = "binding"
    /\ proc' = "listening"
    /\ UNCHANGED <<clock, docs, lastBroadcastTime, connected, nEvents, updates, bc, uri, mongo, http>>

\* the port cannot be bound: the server emits 'error', which has no
\* listener, and the uncaught exception ends the process
ListenError ==
    /\ proc = "binding"
    /\ proc' = "crashed"
    /\ UNCHANGED <<clock, docs, lastBroadcastTime, connected, nEvents, updates, bc, uri, mongo, http>>

\* mongoose.connect resolves (.then)
MongoConnected ==
    /\ proc \in {"binding", "listening"}
    /\ mongo = "connecting"
    /\ mongo' = "connected"
    /\ UNCHANGED <<clock, docs, lastBroadcastTime, connected, nEvents, updates, bc, uri, proc, http>>

\* mongoose.connect rejects (.catch logs the error)
MongoConnectFail ==
    /\ proc \in {"binding", "listening"}
    /\ mongo = "connecting"
    /\ mongo' = "failed"
    /\ UNCHANGED <<clock, docs, lastBroadcastTime, connected, nEvents, updates, bc, uri, proc, http>>

\* the process from its start: one bus reports, the route is queried
NextBoot ==
    \/ Boot
    \/ Listening
    \/ ListenError
    \/ MongoConnected
    \/ MongoConnectFail
    \/ \E c \in Clients : Connect(c)
    \/ \E c \in Clients, data \in ValidPayloads(nEvents + 1, {"B1"}) :
            LocationUpdate(c, data)
    \/ \E u \in DOMAIN updates : UpsertUpdate(u)
    \/ \E u \in DOMAIN updates : UpsertMiss(u)
    \/ \E u \in DOMAIN updates : UpsertInsert(u)
    \/ \E u \in DOMAIN updates : UpsertFail(u)
    \/ \E u \in DOMAIN updates : Resume(u)
    \/ \E u \in DOMAIN updates : Catch(u)
    \/ GetBuses
    \/ FindOk
    \/ FindFail

SpecBoot == InitBoot /\ [][NextBoot]_vars

----------------------------------------------------------------------------
(* Properties *)

BusOf(i) == bc[i].msg.busId

\* the step in which the callback of handler u leaves its await
Leaves(u) == updates[u].stage = "awaiting" /\ updates'[u].stage # "awaiting"

Emits == Len(bc') = Len(bc) + 1

\* C1: any two location:broadcast emissions for the same entity are at
\* least 3000 ms apart by the clock read at the throttle check.
C1_MinInterval ==
    \A i, j \in DOMAIN bc :
        (i < j /\ BusOf(i) = BusOf(j)) => bc[j].at - bc[i].at >= ThrottleMs

\* C2: the throttle decision allows the broadcast and records now for the
\* entity exactly when the entity has no recorded last broadcast or
\* now - lastBroadcast >= 3000; otherwise it denies and changes no entry.
C2_Decision ==
    [][\A u \in DOMAIN updates :
        (Leaves(u) /\ updates[u].db = "ok") =>
            LET b == updates[u].data.busId
                allow == \/ b \notin DOMAIN lastBroadcastTime
                         \/ clock - lastBroadcastTime[b] >= ThrottleMs
            IN IF allow
               THEN /\ updates'[u].stage = "broadcast"
                    /\ Emits
                    /\ DOMAIN lastBroadcastTime' = DOMAIN lastBroadcastTime \cup {b}
                    /\ lastBroadcastTime'[b] = clock
                    /\ \A k \in DOMAIN lastBroadcastTime \ {b} :
                            lastBroadcastTime'[k] = lastBroadcastTime[k]
               ELSE /\ updates'[u].stage = "throttled"
                    /\ UNCHANGED <<lastBroadcastTime, bc>>]_vars

\* C3: of two handlers for the same entity that await their upserts at the
\* same time while the entity was never broadcast, at most one broadcasts
\* within the throttle window.
C3_OneWinner ==
    \A i, j \in DOMAIN bc :
        (/\ i < j
         /\ \A k \in 1..(i - 1) : BusOf(k) # BusOf(i)
         /\ bc[j].from \in bc[i].rivals)
        => bc[j].at - bc[i].at >= ThrottleMs

NeverBroadcast(b) == \A i \in DOMAIN bc : BusOf(i) # b

\* C4 as claimed: the first valid update for an entity that was never
\* broadcast always results in a location:broadcast.
C4_ColdStartAlways ==
    [][\A u \in DOMAIN updates :
        (Leaves(u) /\ NeverBroadcast(updates[u].data.busId)) =>
            /\ updates'[u].stage = "broadcast"
            /\ Emits
            /\ bc'[Len(bc')].from = u]_vars

\* C4 as amended: a valid update whose upsert succeeded, for an entity that
\* was never broadcast, is broadcast when its handler resumes, whatever the
\* throttle entries of the other entities are.
C4_ColdStart ==
    [][\A u \in DOMAIN updates :
        (Leaves(u) /\ updates[u].db = "ok" /\ NeverBroadcast(updates[u].data.busId)) =>
            /\ updates'[u].stage = "broadcast"
            /\ Emits
            /\ bc'[Len(bc')].from = u]_vars

\* an entity's first broadcast, inside the throttle window of another
\* entity's broadcast
C4_Witness ==
    \E i, j \in DOMAIN bc :
        /\ i < j
        /\ BusOf(i) = "B2" /\ BusOf(i) \in DOMAIN lastBroadcastTime
        /\ BusOf(j) = "B1"
        /\ \A k \in 1..(j - 1) : BusOf(k) # "B1"
        /\ bc[i].at > 0
        /\ bc[j].at - bc[i].at < ThrottleMs

\* the latest valid update received for the same entity as handler u
Latest(u) == \A v \in DOMAIN updates :
                updates[v].data.busId = updates[u].data.busId => v <= u

\* C5: once the latest valid update for an entity has been handled
\* (broadcast or throttled), an active-entity query within the active
\* window returns a record for the entity with that update's lat and lng.
C5_QueryHasLatest ==
    \A u \in DOMAIN updates :
        (/\ Latest(u)
         /\ updates[u].stage \in {"broadcast", "throttled"}
         /\ clock - ACTIVE_WINDOW <= updates[u].updatedAt)
        => \E i \in Find(docs, clock) :
                /\ docs[i].busId = updates[u].data.busId
                /\ docs[i].lat = updates[u].data.lat
                /\ docs[i].lng = updates[u].data.lng

\* C6: the Position Store holds at most one record per entityId.
C6_OneRecordPerBus ==
    \A i, j \in DOMAIN docs : docs[i].busId = docs[j].busId => i = j

\* C7: the updatedAt of a stored record never decreases.
C7_UpdatedAtMonotonic ==
    [][\A i \in DOMAIN docs : docs'[i].updatedAt >= docs[i].updatedAt]_vars

\* a payload field the validation is to refuse
Malformed(b, la, ln) == b = "" \/ la = Null \/ ln = Null

\* C8: an update with an empty busId or a null lat or lng (or a payload
\* that is no object) writes nothing to the store, changes no throttle
\* entry and is never broadcast; later events are still handled.
C8_MalformedDropped ==
    /\ \A u \in DOMAIN updates :
            updates[u].data.obj /\
            ~Malformed(updates[u].data.busId, updates[u].data.lat, updates[u].data.lng)
    /\ \A i \in DOMAIN docs : ~Malformed(docs[i].busId, docs[i].lat, docs[i].lng)
    /\ \A i \in DOMAIN bc : ~Malformed(BusOf(i), bc[i].msg.lat, bc[i].msg.lng)
    /\ "" \notin DOMAIN lastBroadcastTime

\* a malformed event was dropped and a later update was stored and broadcast
C8_Witness ==
    \E u \in DOMAIN updates :
        /\ updates[u].ev > u
        /\ updates[u].stage = "broadcast"
        /\ docs # << >>

\* C9: a handler whose upsert failed emits nothing and changes no throttle
\* entry; the failure stays in the handler: the sockets stay connected and
\* the store is untouched.
C9_FailureContained ==
    [][\A u \in DOMAIN updates :
        (Leaves(u) /\ updates[u].db = "error") =>
            /\ updates'[u].stage = "failed"
            /\ UNCHANGED <<bc, lastBroadcastTime, docs, connected>>]_vars

\* an upsert failed and its handler ended in the catch block; an update
\* received later was stored and broadcast
C9_Witness ==
    \E u, v \in DOMAIN updates :
        /\ u < v
        /\ updates[u].stage = "failed"
        /\ updates[v].stage = "broadcast"
        /\ updates[v].updatedAt > updates[u].updatedAt
        /\ \A i \in DOMAIN bc : bc[i].from # u

\* C10: a handler that passes the throttle emits exactly one
\* location:broadcast, with the busId, lat and lng of its update, to every
\* client connected at that moment, the sender included.
C10_Delivery ==
    [][\A u \in DOMAIN updates :
        (Leaves(u) /\ updates'[u].stage = "broadcast") =>
            /\ Emits
            /\ bc'[Len(bc')].msg = [busId |-> updates[u].data.busId,
                                    lat |-> updates[u].data.lat,
                                    lng |-> updates[u].data.lng]
            /\ bc'[Len(bc')].to = connected
            /\ updates[u].sender \in connected => updates[u].sender \in bc'[Len(bc')].to
            /\ \A i \in DOMAIN bc : bc'[i] = bc[i]]_vars

\* a broadcast reached two clients, one of them its sender
C10_Witness ==
    \E i \in DOMAIN bc :
        /\ bc[i].to = Clients
        /\ updates[bc[i].from].sender \in bc[i].to

\* the stored records of entity b, and its throttle entry, are the same
\* before and after the step
RecordsOf(ds, b) == {i \in DOMAIN ds : ds[i].busId = b}

Untouched(b) ==
    /\ RecordsOf(docs', b) = RecordsOf(docs, b)
    /\ \A i \in RecordsOf(docs, b) : docs'[i] = docs[i]
    /\ (b \in DOMAIN lastBroadcastTime') = (b \in DOMAIN lastBroadcastTime)
    /\ b \in DOMAIN lastBroadcastTime => lastBroadcastTime'[b] = lastBroadcastTime[b]

\* C14: a step of the handler of an update for entity A changes neither
\* the stored record nor the throttle entry of any entity B # A; an update
\* for B is stored and broadcast while an upsert for A is pending or failed.
C14_Independent ==
    [][\A u \in DOMAIN updates' :
        (u \notin DOMAIN updates \/ updates'[u] # updates[u]) =>
            \A b \in BusIds \ {updates'[u].data.busId} : Untouched(b)]_vars

\* an update for B2, received after one for B1 whose upsert is still
\* pending, is stored and broadcast
C14_Witness ==
    \E u, v \in DOMAIN updates :
        /\ u < v
        /\ updates[u].data.busId = "B1" /\ updates[u].db = "sent"
        /\ updates[v].data.busId = "B2" /\ updates[v].stage = "broadcast"
        /\ RecordsOf(docs, "B2") # {}

\* C15: a location:broadcast is delivered to no client that has
\* disconnected before the emission, also when the client disconnected
\* while the broadcasting handler awaited its upsert; it reaches every
\* client still connected and the handler completes.
C15_NoDeliveryAfterDisconnect ==
    [][\A u \in DOMAIN updates :
        (Leaves(u) /\ Emits) =>
            /\ \A c \in Clients \ connected : c \notin bc'[Len(bc')].to
            /\ \A c \in connected : c \in bc'[Len(bc')].to
            /\ updates'[u].stage = "broadcast"
            /\ connected' = connected]_vars

\* the sender disconnected while its update was in flight: the broadcast
\* went to the other client only
C15_Witness ==
    \E i \in DOMAIN bc :
        /\ updates[bc[i].from].sender \notin bc[i].to
        /\ bc[i].to # {}

\* the handlers for entity b whose upsert has the given state
UpsertsIn(b, states) ==
    {u \in DOMAIN updates : updates[u].data.busId = b /\ updates[u].db \in states}

\* C16: once every upsert issued for an entity has completed, the stored
\* record holds the lat/lng of the update with the latest updatedAt among
\* them, whatever the order in which the backend applied them.
C16_LastWriteWins ==
    \A b \in BusIds :
        (UpsertsIn(b, {"sent", "inserting"}) = {} /\ UpsertsIn(b, {"ok"}) # {}) =>
            \E i \in RecordsOf(docs, b), u \in UpsertsIn(b, {"ok"}) :
                /\ \A v \in UpsertsIn(b, {"ok"}) : updates[v].updatedAt <= updates[u].updatedAt
                /\ docs[i].lat = updates[u].data.lat
                /\ docs[i].lng = updates[u].data.lng

EmissionsOf(b) == {i \in DOMAIN bc : BusOf(i) = b}

LastEmissionOf(b) == CHOOSE i \in EmissionsOf(b) : \A j \in EmissionsOf(b) : j <= i

\* C17: the throttle entry of an entity is the time of its most recent
\* broadcast: there is an entry exactly when the entity was broadcast, and
\* it holds the time of the last emission (so it is created by the first
\* broadcast, changes only with a broadcast and is never removed).
C17_EntryIsLastBroadcast ==
    \A b \in BusIds :
        /\ (b \in DOMAIN lastBroadcastTime) = (EmissionsOf(b) # {})
        /\ EmissionsOf(b) # {} => lastBroadcastTime[b] = bc[LastEmissionOf(b)].at

\* C18: a throttled update was persisted and is not broadcast, neither in
\* the step that throttles it nor at any later time.
C18_NoDeferredEmission ==
    [][\A u \in DOMAIN updates :
        /\ (Leaves(u) /\ updates'[u].stage = "throttled") =>
                updates[u].db = "ok" /\ bc' = bc
        /\ updates[u].stage = "throttled" =>
                /\ updates'[u].stage = "throttled"
                /\ \A i \in DOMAIN bc' : bc'[i].from # u]_vars

\* a throttled update is the stored position of its bus, no handler is in
\* flight, and the last position broadcast for the bus is an older one
C18_Witness ==
    \E u \in DOMAIN updates :
        /\ updates[u].stage = "throttled"
        /\ InFlight = {}
        /\ \E i \in RecordsOf(docs, updates[u].data.busId) :
                docs[i].lat = updates[u].data.lat
        /\ EmissionsOf(updates[u].data.busId) # {}
        /\ bc[LastEmissionOf(updates[u].data.busId)].msg.lat # updates[u].data.lat

\* C19: every emission comes from a handler whose upsert succeeded, every
\* entity with a throttle entry has a stored record, and an entity has no
\* more broadcasts than successful upserts.
C19_PersistBeforeBroadcast ==
    /\ \A i \in DOMAIN bc :
            /\ updates[bc[i].from].db = "ok"
            /\ updates[bc[i].from].data.busId = BusOf(i)
    /\ \A b \in DOMAIN lastBroadcastTime : RecordsOf(docs, b) # {}
    /\ \A b \in BusIds :
            Cardinality(EmissionsOf(b)) <= Cardinality(UpsertsIn(b, {"ok"}))

\* an entity with a throttle entry, a stored record and fewer broadcasts
\* than successful upserts
C19_Witness ==
    \E b \in DOMAIN lastBroadcastTime :
        /\ RecordsOf(docs, b) # {}
        /\ Cardinality(EmissionsOf(b)) = 1
        /\ Cardinality(UpsertsIn(b, {"ok"})) = 2

\* the positions at which a record of ds occurs in the response body
InBody(body, d) == {k \in DOMAIN body : body[k] = d}

\* the step in which the pending find is answered with a result
Answers == query.pc = "pending" /\ query'.pc = "idle" /\ res'.status = 200 /\ res'.error = ""

\* C11: the query issued at time now is answered with exactly the stored
\* records whose updatedAt >= now - 30 s, the boundary included, in store
\* order and once each; the query leaves the store as it is, and no step
\* removes a record from the store.
C11_ActiveWindow ==
    [][/\ Answers =>
            /\ \A i \in DOMAIN docs :
                    (docs[i].updatedAt >= query.now - 30000)
                        = (InBody(res'.body, docs[i]) # {})
            /\ \A k \in DOMAIN res'.body :
                    \E i \in DOMAIN docs :
                        /\ res'.body[k] = docs[i]
                        /\ docs[i].updatedAt >= query.now - 30000
            /\ Len(res'.body)
                    = Cardinality({i \in DOMAIN docs :
                                    docs[i].updatedAt >= query.now - 30000})
            /\ docs' = docs
       /\ Len(docs') >= Len(docs)
       /\ \A i \in DOMAIN docs : docs'[i].busId = docs[i].busId]_vars

\* the query of t = 40000 was answered with the record updated at 35000
\* and without the record updated at 5000, which is still stored
C11_Witness ==
    /\ res.status = 200
    /\ query = [pc |-> "idle", now |-> 40000]
    /\ \E i, j \in DOMAIN docs :
            /\ docs[i].updatedAt = 5000 /\ InBody(res.body, docs[i]) = {}
            /\ docs[j].updatedAt = 35000 /\ InBody(res.body, docs[j]) # {}
    /\ Len(res.body) = 1

\* the step in which the pending find is settled without a result
Rejects == query.pc = "pending" /\ query'.pc = "idle" /\ ~(res'.status = 200 /\ res'.error = "")

\* C12: a rejected find is answered with status 500 and the generic error
\* body, with no record in it; the step changes neither the store nor the
\* throttle table nor any handler in flight, and the process stays up
\* with the route free for the next request.
C12_QueryError ==
    [][Rejects =>
        /\ res'.status = 500
        /\ res'.error = "Failed to fetch buses"
        /\ res'.body = << >>
        /\ docs' = docs
        /\ lastBroadcastTime' = lastBroadcastTime
        /\ updates' = updates /\ bc' = bc /\ connected' = connected
        /\ proc' = "listening"
        /\ mongo' = mongo]_vars

\* a find was rejected while records are stored, and the next request has
\* been accepted
C12_Witness ==
    /\ res = [status |-> 500, body |-> << >>, error |-> "Failed to fetch buses"]
    /\ docs # << >>
    /\ query.pc = "pending"

\* no connection string was supplied: the variable is unset or empty
Absent(u) == u = << >> \/ u = <<"">>

\* nothing has been served: no connection, update or query was handled
NothingServed ==
    /\ connected = {}
    /\ nEvents = 0
    /\ updates = << >>
    /\ docs = << >>
    /\ bc = << >>
    /\ query = NoQuery
    /\ res = NoResponse

\* C13 as stated: without MONGO_URI the process exits before the socket is
\* bound, mongoose.connect is called or anything is served, and the
\* absence of MONGO_URI is the only failure that stops the process.
C13_OnlyConfigStops ==
    /\ Absent(uri) => proc \in {"boot", "exited"} /\ mongo = "idle" /\ NothingServed
    /\ proc \in {"exited", "crashed"} => Absent(uri)

\* C13, amended: without MONGO_URI the process exits before the socket is
\* bound, mongoose.connect is called or anything is served; with it the
\* process never exits that way and stops only if the socket cannot be
\* bound, before anything is served; a listening process keeps listening
\* whatever becomes of the storage connection, the upserts and the finds.
C13_StartupFatal ==
    /\ [](/\ Absent(uri) => proc \in {"boot", "exited"} /\ mongo = "idle" /\ NothingServed
          /\ proc = "exited" => Absent(uri)
          /\ proc = "crashed" => NothingServed
          /\ (mongo = "failed" /\ ~NothingServed) => proc = "listening")
    /\ [][proc = "listening" => proc' = "listening"]_vars

\* MONGO_URI is unset and the process has exited
C13_Witness ==
    /\ uri = << >>
    /\ proc = "exited"
    /\ mongo = "idle"
    /\ NothingServed

====
